---- MODULE Spec2Model ----
(***************************************************************************)
(* Room synchronisation server of virtual-hangout (the socket.io server).  *)
(* One action per socket handler; the registry `rooms` is the process-wide *)
(* Map, `currentRoomId` the per-connection closure variable, `socketRooms` *)
(* the socket.io broadcast groups a socket is a member of.                 *)
(***************************************************************************)
EXTENDS Integers, Sequences, FiniteSets, TLC

VARIABLES rooms,          \* Map roomId -> room state (domain = rooms created)
          status,         \* socket id -> "none" | "open" | "closed"
          currentRoomId,  \* socket id -> room id or Null (closure variable)
          socketRooms,    \* socket id -> set of broadcast groups joined
          emitted,        \* emissions of the handler that ran last, in order
          lastEvent,      \* the inbound event that handler ran for (observer)
          hist,           \* per-room history counters (observers only)
          now,            \* Date.now()
          client,         \* the state of the browser client (the player component)
          search          \* the search route: the request it is serving

vars == <<rooms, status, currentRoomId, socketRooms, emitted, lastEvent, hist, now, client, search>>

----------------------------------------------------------------------------
(* Bounds of the model *)
MaxRoster == 2      \* joins that append are cut off at this roster length
MaxQueue == 2       \* queue:add is cut off at this queue length
MaxVotes == 4       \* vote:next events counted per room while the roster is fixed
MaxSent == 102      \* chat:send events per room in the chat specification
MaxTime == 1        \* ticks of the clock
MaxChat == 1        \* messages a room holds in the frame specification
MaxClock == 4       \* half seconds the clock of the browser runs

(* Program constants *)
ChatCap == 100

Null == "null"
NoId == ""          \* a missing / falsy participantId
SocketIds == {"s1", "s2"}
OtherIds == {"u1"}
Pids == SocketIds \cup OtherIds
RoomIds == {"r1", "r2"}
OneRoom == {"r1"}

----------------------------------------------------------------------------
(* Values *)

Participant(id, name) ==
    [id |-> id, name |-> name, isHost |-> FALSE, isMuted |-> FALSE, isCameraOff |-> FALSE]

QueueItem(id) == [id |-> id, videoId |-> "v"]

ChatMessage(id, sender) == [id |-> id, senderId |-> sender, content |-> "c"]

(* a registry that creates rooms already playing *)
EmptyRoom_playing ==
    [participants |-> <<>>,
     queue |-> <<>>,
     messages |-> <<>>,
     votes |-> {},
     currentVideoIndex |-> 0,
     playerState |-> "playing",
     currentTime |-> 0]

(* getRoom, lines 18-26: the state a room is created with *)
EmptyRoom ==
    [participants |-> <<>>,
     queue |-> <<>>,
     messages |-> <<>>,
     votes |-> {},
     currentVideoIndex |-> 0,
     playerState |-> "paused",
     currentTime |-> 0]

EmptyHist == [handled |-> 0, advances |-> 0, tainted |-> FALSE, chatTotal |-> 0]

(* a registry that stores a fresh room on every reference *)
getRoom_alwaysFresh(rs, roomId) ==
    [r \in DOMAIN rs \cup {roomId} |-> IF r = roomId THEN EmptyRoom ELSE rs[r]]

(* rooms.has(roomId) ? rooms : rooms.set(roomId, fresh) -- the registry after getRoom *)
getRoom(rs, roomId) ==
    IF roomId \in DOMAIN rs
    THEN rs
    ELSE [r \in DOMAIN rs \cup {roomId} |-> IF r = roomId THEN EmptyRoom ELSE rs[r]]

NoHist == [handled |-> 0, advances |-> 0, tainted |-> TRUE, chatTotal |-> 0]

Ids(participants) == {participants[i].id : i \in 1..Len(participants)}

RECURSIVE findIndex(_, _, _)
(* Array.prototype.findIndex(p => p.id === id), 1-based; 0 when absent *)
findIndex(participants, id, i) ==
    IF i > Len(participants) THEN 0
    ELSE IF participants[i].id = id THEN i
    ELSE findIndex(participants, id, i + 1)

(* a filter with the test turned round: the matching items are the ones kept *)
filterOut_keepsMatch(seq, id) ==
    LET Same(x) == x.id = id IN SelectSeq(seq, Same)

RECURSIVE filterOut(_, _)
(* Array.prototype.filter(x => x.id !== id) *)
filterOut(seq, id) ==
    IF seq = <<>> THEN <<>>
    ELSE IF Head(seq).id = id THEN filterOut(Tail(seq), id)
    ELSE <<Head(seq)>> \o filterOut(Tail(seq), id)

(* a merge that loses the name when the update does not carry one *)
assign_clearsName(target, updates) ==
    [f \in DOMAIN target \cup DOMAIN updates |->
        IF f \in DOMAIN updates THEN updates[f]
        ELSE IF f = "name" THEN "" ELSE target[f]]

(* Object.assign(target, updates): fields of updates overwrite, others stay *)
assign(target, updates) ==
    [f \in DOMAIN target \cup DOMAIN updates |->
        IF f \in DOMAIN updates THEN updates[f] ELSE target[f]]

(* Recipients of io.to(roomId) and of socket.to(roomId) *)
InRoom(roomId) == {s \in SocketIds : roomId \in socketRooms[s]}
Others(s, roomId) == InRoom(roomId) \ {s}

Emit(ev, to, payload) == [ev |-> ev, to |-> to, payload |-> payload]

(* the server specifications leave the client out *)
NoClient == Null
NoSearch == Null

Event(name, roomId, arg) == [name |-> name, roomId |-> roomId, arg |-> arg]

----------------------------------------------------------------------------
Init ==
    /\ rooms = <<>>
    /\ hist = [r \in RoomIds |-> NoHist]
    /\ status = [s \in SocketIds |-> "none"]
    /\ currentRoomId = [s \in SocketIds |-> Null]
    /\ socketRooms = [s \in SocketIds |-> {}]
    /\ emitted = <<>>
    /\ lastEvent = Event("none", Null, Null)
    /\ now = 0
    /\ client = NoClient
    /\ search = NoSearch

(* io.on('connection') *)
Connect(s) ==
    /\ status[s] = "none"
    /\ status' = [status EXCEPT ![s] = "open"]
    /\ emitted' = <<>>
    /\ lastEvent' = Event("connection", Null, Null)
    /\ UNCHANGED <<client, search, rooms, hist, currentRoomId, socketRooms, now>>

(* a join that moves a re-joining participant to the end of the roster *)
AddParticipant_moveToEnd(participants, participant) ==
    Append(filterOut(participants, participant.id), participant)

(* a join that pushes without looking for the id *)
AddParticipant_alwaysPush(participants, participant) == Append(participants, participant)

(* room:join, lines 57-62: replace in place when the id exists, else push *)
AddParticipant(participants, participant) ==
    LET existingIndex == findIndex(participants, participant.id, 1)
    IN IF existingIndex >= 1
       THEN [participants EXCEPT ![existingIndex] = participant]
       ELSE Append(participants, participant)

IdSeq(participants) == [i \in 1..Len(participants) |-> participants[i].id]

(* History: the counters of a room stop once its roster changes after a vote, *)
(* or once an id outside the roster votes                                     *)
Taint(h) == [h EXCEPT !.handled = 0, !.advances = 0, !.tainted = TRUE]

RosterHist(h, before, after) ==
    IF h.handled > 0 /\ IdSeq(before) # IdSeq(after) THEN Taint(h) ELSE h

(* a join that notifies with io.to(roomId), the joiner included *)
Join_notifiesAll(s, roomId, participant) ==
    /\ status[s] = "open"
    /\ LET rs == getRoom(rooms, roomId)
           room == rs[roomId]
           room2 == [room EXCEPT !.participants = AddParticipant(room.participants, participant)]
           groups == [socketRooms EXCEPT ![s] = @ \cup {roomId}]
           members == {x \in SocketIds : roomId \in groups[x]}
       IN /\ currentRoomId' = [currentRoomId EXCEPT ![s] = roomId]
          /\ socketRooms' = groups
          /\ rooms' = [rs EXCEPT ![roomId] = room2]
          /\ hist' = [hist EXCEPT ![roomId] = RosterHist(@, room.participants, room2.participants)]
          /\ emitted' = << Emit("room:joined", {s}, room2),
                           Emit("room:participant-joined", members, participant) >>
    /\ lastEvent' = Event("room:join", roomId, participant)
    /\ UNCHANGED <<client, search, status, now>>

(* socket.on('room:join') *)
ServerJoin(s, roomId, participant) ==
    /\ status[s] = "open"
    /\ LET rs == getRoom(rooms, roomId)
           room == rs[roomId]
           room2 == [room EXCEPT !.participants = AddParticipant(room.participants, participant)]
           groups == [socketRooms EXCEPT ![s] = @ \cup {roomId}]
           members == {x \in SocketIds : roomId \in groups[x]}
       IN /\ currentRoomId' = [currentRoomId EXCEPT ![s] = roomId]
          /\ socketRooms' = groups
          /\ rooms' = [rs EXCEPT ![roomId] = room2]
          /\ hist' = [hist EXCEPT ![roomId] = RosterHist(@, room.participants, room2.participants)]
          /\ emitted' = << Emit("room:joined", {s}, room2),
                           Emit("room:participant-joined", members \ {s}, participant) >>
    /\ lastEvent' = Event("room:join", roomId, participant)
    /\ UNCHANGED <<search, status, now>>

(* the same handler while the browsers are left out of the picture *)
Join(s, roomId, participant) ==
    /\ ServerJoin(s, roomId, participant)
    /\ UNCHANGED client

(* a leave that also withdraws the vote of the leaving connection *)
Leave_purgesVote(s, roomId) ==
    /\ status[s] = "open"
    /\ IF currentRoomId[s] # Null
       THEN LET cur == currentRoomId[s]
                rs == getRoom(rooms, cur)
                room == rs[cur]
                room2 == [room EXCEPT !.participants = filterOut(room.participants, s),
                                      !.votes = @ \ {s}]
            IN /\ rooms' = [rs EXCEPT ![cur] = room2]
               /\ hist' = [hist EXCEPT ![cur] = RosterHist(@, room.participants, room2.participants)]
               /\ emitted' = << Emit("room:participant-left", Others(s, cur), s) >>
               /\ socketRooms' = [socketRooms EXCEPT ![s] = @ \ {cur}]
               /\ currentRoomId' = [currentRoomId EXCEPT ![s] = Null]
       ELSE /\ emitted' = <<>>
            /\ UNCHANGED <<rooms, hist, socketRooms, currentRoomId>>
    /\ lastEvent' = Event("room:leave", roomId, Null)
    /\ UNCHANGED <<client, search, status, now>>

(* a leave that forgets to reset currentRoomId *)
Leave_keepsRoomId(s, roomId) ==
    /\ status[s] = "open"
    /\ IF currentRoomId[s] # Null
       THEN LET cur == currentRoomId[s]
                rs == getRoom(rooms, cur)
                room == rs[cur]
                room2 == [room EXCEPT !.participants = filterOut(room.participants, s)]
            IN /\ rooms' = [rs EXCEPT ![cur] = room2]
               /\ hist' = [hist EXCEPT ![cur] = RosterHist(@, room.participants, room2.participants)]
               /\ emitted' = << Emit("room:participant-left", Others(s, cur), s) >>
               /\ socketRooms' = [socketRooms EXCEPT ![s] = @ \ {cur}]
               /\ currentRoomId' = currentRoomId
       ELSE /\ emitted' = <<>>
            /\ UNCHANGED <<rooms, hist, socketRooms, currentRoomId>>
    /\ lastEvent' = Event("room:leave", roomId, Null)
    /\ UNCHANGED <<client, search, status, now>>

(* socket.on('room:leave'): the payload is ignored, currentRoomId decides *)
ServerLeave(s, roomId) ==
    /\ status[s] = "open"
    /\ IF currentRoomId[s] # Null
       THEN LET cur == currentRoomId[s]
                rs == getRoom(rooms, cur)
                room == rs[cur]
                room2 == [room EXCEPT !.participants = filterOut(room.participants, s)]
            IN /\ rooms' = [rs EXCEPT ![cur] = room2]
               /\ hist' = [hist EXCEPT ![cur] = RosterHist(@, room.participants, room2.participants)]
               /\ emitted' = << Emit("room:participant-left", Others(s, cur), s) >>
               /\ socketRooms' = [socketRooms EXCEPT ![s] = @ \ {cur}]
               /\ currentRoomId' = [currentRoomId EXCEPT ![s] = Null]
       ELSE /\ emitted' = <<>>
            /\ UNCHANGED <<rooms, hist, socketRooms, currentRoomId>>
    /\ lastEvent' = Event("room:leave", roomId, Null)
    /\ UNCHANGED <<search, status, now>>

(* the same handler while the browsers are left out of the picture *)
Leave(s, roomId) ==
    /\ ServerLeave(s, roomId)
    /\ UNCHANGED client

(* socket.on('participant:update') *)
ServerUpdate(s, roomId, updates) ==
    /\ status[s] = "open"
    /\ LET rs == getRoom(rooms, roomId)
           room == rs[roomId]
           i == findIndex(room.participants, s, 1)
       IN IF i >= 1
          THEN LET room2 == [room EXCEPT !.participants[i] = assign(@, updates)]
               IN /\ rooms' = [rs EXCEPT ![roomId] = room2]
                  /\ hist' = [hist EXCEPT ![roomId] = RosterHist(@, room.participants, room2.participants)]
                  /\ emitted' = << Emit("room:participant-updated", InRoom(roomId),
                                        [id |-> s, updates |-> updates]) >>
          ELSE /\ rooms' = rs
               /\ hist' = hist
               /\ emitted' = <<>>
    /\ lastEvent' = Event("participant:update", roomId, updates)
    /\ UNCHANGED <<search, status, currentRoomId, socketRooms, now>>

(* the same handler while the browsers are left out of the picture *)
Update(s, roomId, updates) ==
    /\ ServerUpdate(s, roomId, updates)
    /\ UNCHANGED client

(* a handler that stores whatever action string the client sent *)
NextPlayerState_storesAction(playerState, action) ==
    IF action = "play" THEN "playing"
    ELSE IF action = "pause" THEN "paused"
    ELSE action

(* a handler that treats every action other than play as a pause *)
NextPlayerState_seekPauses(playerState, action) ==
    IF action = "play" THEN "playing" ELSE "paused"

(* lines 110-114: only play and pause change playerState *)
NextPlayerState(playerState, action) ==
    IF action = "play" THEN "playing"
    ELSE IF action = "pause" THEN "paused"
    ELSE playerState

(* a handler that moves on to the next video when a client reports the end *)
PlayerAction_endedAdvances(s, roomId, action, videoTime) ==
    /\ status[s] = "open"
    /\ LET rs == getRoom(rooms, roomId)
           room == rs[roomId]
       IN /\ rooms' = [rs EXCEPT ![roomId] =
                          [room EXCEPT !.playerState = NextPlayerState(room.playerState, action),
                                       !.currentTime = videoTime,
                                       !.currentVideoIndex =
                                           IF action = "ended" THEN @ + 1 ELSE @]]
          /\ hist' = hist
          /\ emitted' = << Emit("player:sync", InRoom(roomId),
                                [action |-> action, videoTime |-> videoTime,
                                 serverTime |-> now, initiator |-> s]) >>
    /\ lastEvent' = Event("player:action", roomId, <<action, videoTime>>)
    /\ UNCHANGED <<client, search, status, currentRoomId, socketRooms, now>>

(* socket.on('player:action') *)
PlayerAction(s, roomId, action, videoTime) ==
    /\ status[s] = "open"
    /\ LET rs == getRoom(rooms, roomId)
           room == rs[roomId]
       IN /\ rooms' = [rs EXCEPT ![roomId] =
                          [room EXCEPT !.playerState = NextPlayerState(room.playerState, action),
                                       !.currentTime = videoTime]]
          /\ hist' = hist
          /\ emitted' = << Emit("player:sync", InRoom(roomId),
                                [action |-> action, videoTime |-> videoTime,
                                 serverTime |-> now, initiator |-> s]) >>
    /\ lastEvent' = Event("player:action", roomId, <<action, videoTime>>)
    /\ UNCHANGED <<client, search, status, currentRoomId, socketRooms, now>>

(* socket.on('queue:add') *)
ServerQueueAdd(s, roomId, item) ==
    /\ status[s] = "open"
    /\ LET rs == getRoom(rooms, roomId)
           room2 == [rs[roomId] EXCEPT !.queue = Append(@, item)]
       IN /\ rooms' = [rs EXCEPT ![roomId] = room2]
          /\ hist' = hist
          /\ emitted' = << Emit("queue:updated", InRoom(roomId), room2.queue) >>
    /\ lastEvent' = Event("queue:add", roomId, item)
    /\ UNCHANGED <<search, status, currentRoomId, socketRooms, now>>

(* the same handler while the browsers are left out of the picture *)
QueueAdd(s, roomId, item) ==
    /\ ServerQueueAdd(s, roomId, item)
    /\ UNCHANGED client

(* a remove that broadcasts only when it took something out *)
QueueRemove_skipsBroadcast(s, roomId, itemId) ==
    /\ status[s] = "open"
    /\ LET rs == getRoom(rooms, roomId)
           room2 == [rs[roomId] EXCEPT !.queue = filterOut(@, itemId)]
       IN /\ rooms' = [rs EXCEPT ![roomId] = room2]
          /\ hist' = hist
          /\ emitted' = IF room2.queue = rs[roomId].queue
                        THEN <<>>
                        ELSE << Emit("queue:updated", InRoom(roomId), room2.queue) >>
    /\ lastEvent' = Event("queue:remove", roomId, itemId)
    /\ UNCHANGED <<client, search, status, currentRoomId, socketRooms, now>>

(* socket.on('queue:remove') *)
QueueRemove(s, roomId, itemId) ==
    /\ status[s] = "open"
    /\ LET rs == getRoom(rooms, roomId)
           room2 == [rs[roomId] EXCEPT !.queue = filterOut(@, itemId)]
       IN /\ rooms' = [rs EXCEPT ![roomId] = room2]
          /\ hist' = hist
          /\ emitted' = << Emit("queue:updated", InRoom(roomId), room2.queue) >>
    /\ lastEvent' = Event("queue:remove", roomId, itemId)
    /\ UNCHANGED <<client, search, status, currentRoomId, socketRooms, now>>

(* a change of video that keeps the playback position of the old one *)
ChangeVideo_keepsTime(s, roomId, index) ==
    /\ status[s] = "open"
    /\ LET rs == getRoom(rooms, roomId)
       IN /\ rooms' = [rs EXCEPT ![roomId] = [@ EXCEPT !.currentVideoIndex = index]]
          /\ hist' = hist
          /\ emitted' = << Emit("queue:video-changed", InRoom(roomId), index) >>
    /\ lastEvent' = Event("queue:change-video", roomId, index)
    /\ UNCHANGED <<client, search, status, currentRoomId, socketRooms, now>>

(* socket.on('queue:change-video') *)
ServerChangeVideo(s, roomId, index) ==
    /\ status[s] = "open"
    /\ LET rs == getRoom(rooms, roomId)
       IN /\ rooms' = [rs EXCEPT ![roomId] =
                          [@ EXCEPT !.currentVideoIndex = index, !.currentTime = 0]]
          /\ hist' = hist
          /\ emitted' = << Emit("queue:video-changed", InRoom(roomId), index) >>
    /\ lastEvent' = Event("queue:change-video", roomId, index)
    /\ UNCHANGED <<search, status, currentRoomId, socketRooms, now>>

(* the same handler while the browsers are left out of the picture *)
ChangeVideo(s, roomId, index) ==
    /\ ServerChangeVideo(s, roomId, index)
    /\ UNCHANGED client

(* an eviction that drops the newest message instead of the oldest *)
PushMessage_dropNewest(messages, message) ==
    LET pushed == Append(messages, message)
    IN IF Len(pushed) > ChatCap THEN SubSeq(pushed, 1, ChatCap) ELSE pushed

(* lines 154-159: push, then drop the oldest when over the cap *)
PushMessage(messages, message) ==
    LET pushed == Append(messages, message)
    IN IF Len(pushed) > ChatCap THEN Tail(pushed) ELSE pushed

(* socket.on('chat:send') *)
ChatSend(s, roomId, message) ==
    /\ status[s] = "open"
    /\ LET rs == getRoom(rooms, roomId)
       IN /\ rooms' = [rs EXCEPT ![roomId] = [@ EXCEPT !.messages = PushMessage(@, message)]]
          /\ hist' = [hist EXCEPT ![roomId] = [@ EXCEPT !.chatTotal = @ + 1]]
          /\ emitted' = << Emit("chat:message", InRoom(roomId), message) >>
    /\ lastEvent' = Event("chat:send", roomId, message)
    /\ UNCHANGED <<client, search, status, currentRoomId, socketRooms, now>>

(* line 167: !participantId *)
Falsy(participantId) == participantId = NoId

(* a vote that withdraws itself when it is cast a second time *)
CastVote_toggle(room, participantId) ==
    [room EXCEPT !.votes = IF participantId \in @ THEN @ \ {participantId}
                           ELSE @ \cup {participantId}]

(* line 170: room.votes.add(participantId) *)
CastVote(room, participantId) == [room EXCEPT !.votes = @ \cup {participantId}]

(* a strict comparison in the quorum test *)
HasQuorum_strict(room) == Cardinality(room.votes) > Len(room.participants)

(* line 176: room.votes.size >= room.participants.length *)
HasQuorum(room) == Cardinality(room.votes) >= Len(room.participants)

(* the end-of-queue test off by one *)
CanAdvance_offByOne(room) == room.currentVideoIndex < Len(room.queue)

(* line 178: room.currentVideoIndex < room.queue.length - 1 *)
CanAdvance(room) == room.currentVideoIndex < Len(room.queue) - 1

(* an advance that forgets to reset the playback position *)
Advance_keepTime(room) ==
    [room EXCEPT !.currentVideoIndex = @ + 1,
                 !.playerState = "playing",
                 !.votes = {}]

(* an advance that leaves the votes in place *)
Advance_keepVotes(room) ==
    [room EXCEPT !.currentVideoIndex = @ + 1,
                 !.currentTime = 0,
                 !.playerState = "playing"]

(* lines 180-185 *)
Advance(room) ==
    [room EXCEPT !.currentVideoIndex = @ + 1,
                 !.currentTime = 0,
                 !.playerState = "playing",
                 !.votes = {}]

(* an end-of-queue branch that leaves the votes in place *)
ClearVotes_keeps(room) == room

(* line 201 *)
ClearVotes(room) == [room EXCEPT !.votes = {}]

(* the cleared vote set announced before the new index *)
VoteEmits_reordered(to, voted, after, serverTime) ==
    << Emit("room:votes-updated", to, voted.votes) >> \o
    ( IF ~HasQuorum(voted) THEN <<>>
      ELSE IF CanAdvance(voted)
      THEN << Emit("room:votes-updated", to, {}),
              Emit("queue:video-changed", to, after.currentVideoIndex),
              Emit("player:sync", to, [action |-> "play", videoTime |-> 0,
                                       serverTime |-> serverTime, initiator |-> "system"]) >>
      ELSE << Emit("room:votes-updated", to, {}) >> )

(* lines 173, 188-197, 202: what vote:next broadcasts, in order *)
VoteEmits(to, voted, after, serverTime) ==
    << Emit("room:votes-updated", to, voted.votes) >> \o
    ( IF ~HasQuorum(voted) THEN <<>>
      ELSE IF CanAdvance(voted)
      THEN << Emit("queue:video-changed", to, after.currentVideoIndex),
              Emit("room:votes-updated", to, {}),
              Emit("player:sync", to, [action |-> "play", videoTime |-> 0,
                                       serverTime |-> serverTime, initiator |-> "system"]) >>
      ELSE << Emit("room:votes-updated", to, {}) >> )

(* History of vote:next: votes handled and advances while only members vote *)
VoteHist(h, room, participantId, after) ==
    IF h.tainted THEN h
    ELSE IF participantId \notin Ids(room.participants) THEN Taint(h)
    ELSE [h EXCEPT !.handled = @ + 1,
                   !.advances = @ + (after.currentVideoIndex - room.currentVideoIndex)]

(* socket.on('vote:next') *)
ServerVoteNext(s, roomId, participantId) ==
    /\ status[s] = "open"
    /\ LET rs == getRoom(rooms, roomId)
           room == rs[roomId]
       IN IF Falsy(participantId)
          THEN /\ rooms' = rs
               /\ hist' = hist
               /\ emitted' = <<>>
          ELSE LET voted == CastVote(room, participantId)
                   after == IF HasQuorum(voted)
                            THEN IF CanAdvance(voted) THEN Advance(voted) ELSE ClearVotes(voted)
                            ELSE voted
               IN /\ rooms' = [rs EXCEPT ![roomId] = after]
                  /\ hist' = [hist EXCEPT ![roomId] =
                                 VoteHist(@, room, participantId, after)]
                  /\ emitted' = VoteEmits(InRoom(roomId), voted, after, now)
    /\ lastEvent' = Event("vote:next", roomId, participantId)
    /\ UNCHANGED <<search, status, currentRoomId, socketRooms, now>>

(* the same handler while the browsers are left out of the picture *)
VoteNext(s, roomId, participantId) ==
    /\ ServerVoteNext(s, roomId, participantId)
    /\ UNCHANGED client

(* socket.on('disconnect'): socket.io has already taken the socket out of its groups *)
ServerDisconnect(s) ==
    /\ status[s] = "open"
    /\ status' = [status EXCEPT ![s] = "closed"]
    /\ socketRooms' = [socketRooms EXCEPT ![s] = {}]
    /\ IF currentRoomId[s] # Null
       THEN LET cur == currentRoomId[s]
                rs == getRoom(rooms, cur)
                room == rs[cur]
                room2 == [room EXCEPT !.participants = filterOut(room.participants, s)]
            IN /\ rooms' = [rs EXCEPT ![cur] = room2]
               /\ hist' = [hist EXCEPT ![cur] = RosterHist(@, room.participants, room2.participants)]
               /\ emitted' = << Emit("room:participant-left", Others(s, cur), s) >>
       ELSE /\ emitted' = <<>>
            /\ UNCHANGED <<rooms, hist>>
    /\ lastEvent' = Event("disconnect", Null, Null)
    /\ UNCHANGED <<search, currentRoomId, now>>

(* the same handler while the browsers are left out of the picture *)
Disconnect(s) ==
    /\ ServerDisconnect(s)
    /\ UNCHANGED client

(* Date.now() advances *)
Tick ==
    /\ now < MaxTime
    /\ now' = now + 1
    /\ UNCHANGED <<client, search, rooms, hist, status, currentRoomId, socketRooms, emitted, lastEvent>>

----------------------------------------------------------------------------
(* The player component of the client. Seconds are held in thousandths, so    *)
(* that (Date.now() - serverTime) / 1000 seconds is that many thousandths.    *)
OneSecond == 1000

Abs(x) == IF x < 0 THEN 0 - x ELSE x

(* a latency taken in milliseconds and added to seconds as it is *)
Latency_noDivision(clock, serverTime) == (clock - serverTime) * 1000

(* const latency = (Date.now() - data.serverTime) / 1000 *)
Latency(clock, serverTime) == clock - serverTime

(* data.action === 'seek' || Math.abs(currentPlayerTime - targetTime) > 1 *)
MustSeek(action, currentPlayerTime, targetTime) ==
    action = "seek" \/ Abs(currentPlayerTime - targetTime) > OneSecond

(* the calls the callback makes on the player, in order *)
PlayerCalls(action, seek) ==
    (IF seek THEN << "seekTo" >> ELSE <<>>)
    \o (IF action = "play" THEN << "playVideo" >>
        ELSE IF action = "pause" THEN << "pauseVideo" >>
        ELSE <<>>)

(* the callback of onPlayerSync *)
OnPlayerSync(data) ==
    /\ client' =
          IF ~ client.isReady
          THEN [client EXCEPT !.sync = data, !.calls = <<>>]
          ELSE LET latency == Latency(client.clock, data.serverTime)
                   targetTime == data.videoTime + latency
                   seek == MustSeek(data.action, client.playerTime, targetTime)
               IN [client EXCEPT
                      !.sync = data,
                      !.calls = PlayerCalls(data.action, seek),
                      !.target = IF seek THEN targetTime ELSE @,
                      !.playerTime = IF seek THEN targetTime ELSE @,
                      !.playerState = IF data.action = "play" THEN "playing"
                                      ELSE IF data.action = "pause" THEN "paused"
                                      ELSE @]
    /\ UNCHANGED <<search, rooms, hist, status, currentRoomId, socketRooms, emitted, lastEvent, now>>

(* onReady: the player can be driven from now on *)
OnReady ==
    /\ ~ client.isReady
    /\ client' = [client EXCEPT !.isReady = TRUE]
    /\ UNCHANGED <<search, rooms, hist, status, currentRoomId, socketRooms, emitted, lastEvent, now>>

(* the clock of the browser, and with it a playing video, moves on by half a second *)
ClientTick ==
    /\ client.clock < MaxClock * 500
    /\ client' = [client EXCEPT
                     !.clock = @ + 500,
                     !.playerTime = IF client.playerState = "playing" THEN @ + 500 ELSE @]
    /\ UNCHANGED <<search, rooms, hist, status, currentRoomId, socketRooms, emitted, lastEvent, now>>

----------------------------------------------------------------------------
(* Inputs of the general specification (connections stay open in it; the
   consensus specification closes them) *)
RoomOf(roomId) == IF roomId \in DOMAIN rooms THEN rooms[roomId] ELSE EmptyRoom

(* joins that would append stop at MaxRoster entries; re-joins always run *)
CanJoin(roomId, participant) ==
    \/ Len(RoomOf(roomId).participants) < MaxRoster
    \/ participant.id \in Ids(RoomOf(roomId).participants)

JoinInputs == {Participant(id, "n") : id \in Pids}
UpdateInputs == {[id |-> "u1"]}
IndexInputs == 0..MaxQueue
VoteInputs == Pids \cup {NoId}

Next ==
    \/ \E s \in SocketIds : Connect(s)
    \/ \E s \in SocketIds, r \in OneRoom, p \in JoinInputs :
          /\ CanJoin(r, p)
          /\ Join(s, r, p)
    \/ \E s \in SocketIds, r \in OneRoom : Leave(s, r)
    \/ \E s \in SocketIds, r \in OneRoom, u \in UpdateInputs : Update(s, r, u)
    \/ \E s \in SocketIds, r \in OneRoom : PlayerAction(s, r, "pause", 7)
    \/ \E s \in SocketIds, r \in OneRoom :
          /\ Len(RoomOf(r).queue) < MaxQueue
          /\ QueueAdd(s, r, QueueItem("q"))
    \/ \E s \in SocketIds, r \in OneRoom, i \in IndexInputs : ChangeVideo(s, r, i)
    \/ \E s \in SocketIds, r \in OneRoom, p \in VoteInputs :
          VoteNext(s, r, p)

Spec == Init /\ [][Next]_vars

(* The consensus specification: votes and advances of each room are counted *)
InitQuorum ==
    /\ rooms = <<>>
    /\ hist = [r \in RoomIds |-> EmptyHist]
    /\ status = [s \in SocketIds |-> "none"]
    /\ currentRoomId = [s \in SocketIds |-> Null]
    /\ socketRooms = [s \in SocketIds |-> {}]
    /\ emitted = <<>>
    /\ lastEvent = Event("none", Null, Null)
    /\ now = 0
    /\ client = NoClient
    /\ search = NoSearch

NextQuorum ==
    \/ \E s \in SocketIds : Connect(s)
    \/ \E s \in SocketIds, r \in OneRoom, p \in JoinInputs :
          /\ CanJoin(r, p)
          /\ Join(s, r, p)
    \/ \E s \in SocketIds, r \in OneRoom : Leave(s, r)
    \/ \E s \in SocketIds, r \in OneRoom :
          /\ Len(RoomOf(r).queue) < MaxQueue
          /\ QueueAdd(s, r, QueueItem("q"))
    \/ \E s \in SocketIds, r \in OneRoom : ChangeVideo(s, r, 0)
    \/ \E s \in SocketIds, r \in OneRoom, p \in VoteInputs :
          /\ hist[r].handled < MaxVotes
          /\ VoteNext(s, r, p)
    \/ \E s \in SocketIds : Disconnect(s)

SpecQuorum == InitQuorum /\ [][NextQuorum]_vars

(* The chat specification: one room, messages numbered by arrival *)
NextChat ==
    \/ \E s \in SocketIds : Connect(s)
    \/ \E s \in SocketIds, r \in OneRoom : Join(s, r, Participant(s, "n"))
    \/ \E s \in SocketIds, r \in OneRoom :
          /\ hist[r].chatTotal < MaxSent
          /\ ChatSend(s, r, ChatMessage(hist[r].chatTotal + 1, "u1"))
    \/ \E s \in SocketIds, r \in OneRoom : Leave(s, r)
    \/ Tick

SpecChat == Init /\ [][NextChat]_vars

(* The join specification: nothing but connections and joins *)
JoinInputsWide == {Participant(id, name) : id \in Pids, name \in {"n", "m"}}

NextJoin ==
    \/ \E s \in SocketIds : Connect(s)
    \/ \E s \in SocketIds, r \in OneRoom, p \in JoinInputsWide :
          /\ CanJoin(r, p)
          /\ Join(s, r, p)

SpecJoin == Init /\ [][NextJoin]_vars

(* The playback specification: joins, leaves, playback actions and queue-adds *)
ActionInputs == {"play", "pause", "seek"}
TimeInputs == {0, 7}

NextSync ==
    \/ \E s \in SocketIds : Connect(s)
    \/ \E s \in SocketIds, r \in OneRoom, p \in JoinInputs :
          /\ CanJoin(r, p)
          /\ Join(s, r, p)
    \/ \E s \in SocketIds, r \in OneRoom : Leave(s, r)
    \/ \E s \in SocketIds, r \in OneRoom, a \in ActionInputs, t \in TimeInputs :
          PlayerAction(s, r, a, t)
    \/ \E s \in SocketIds, r \in OneRoom :
          /\ Len(RoomOf(r).queue) < MaxQueue
          /\ QueueAdd(s, r, QueueItem("q"))
    \/ Tick

SpecSync == Init /\ [][NextSync]_vars

(* The membership specification: connections join, leave and close *)
NextLeave ==
    \/ \E s \in SocketIds : Connect(s)
    \/ \E s \in SocketIds, r \in OneRoom, p \in JoinInputs :
          /\ CanJoin(r, p)
          /\ Join(s, r, p)
    \/ \E s \in SocketIds, r \in OneRoom : Leave(s, r)
    \/ \E s \in SocketIds : Disconnect(s)

SpecLeave == Init /\ [][NextLeave]_vars

(* The two-room specification: every connection joins as itself *)
NextRooms ==
    \/ \E s \in SocketIds : Connect(s)
    \/ \E s \in SocketIds, r \in RoomIds :
          /\ CanJoin(r, Participant(s, "n"))
          /\ Join(s, r, Participant(s, "n"))
    \/ \E s \in SocketIds, r \in RoomIds : Leave(s, r)
    \/ \E s \in SocketIds : Disconnect(s)

SpecRooms == Init /\ [][NextRooms]_vars

(* The update specification: joins, leaves and partial updates *)
PatchInputs == {[isMuted |-> TRUE], [name |-> "z", isCameraOff |-> TRUE], [id |-> "u1"]}

NextPatch ==
    \/ \E s \in SocketIds : Connect(s)
    \/ \E s \in SocketIds, r \in OneRoom, p \in JoinInputs :
          /\ CanJoin(r, p)
          /\ Join(s, r, p)
    \/ \E s \in SocketIds, r \in OneRoom : Leave(s, r)
    \/ \E s \in SocketIds, r \in OneRoom, u \in PatchInputs : Update(s, r, u)

SpecPatch == Init /\ [][NextPatch]_vars

(* The queue specification: items are added and removed by id *)
ItemIds == {"a", "b"}
RemoveInputs == ItemIds \cup {"x"}

NextQueue ==
    \/ \E s \in SocketIds : Connect(s)
    \/ \E s \in SocketIds, r \in OneRoom : Join(s, r, Participant(s, "n"))
    \/ \E s \in SocketIds, r \in OneRoom : Leave(s, r)
    \/ \E s \in SocketIds, r \in OneRoom, i \in ItemIds :
          /\ Len(RoomOf(r).queue) < MaxQueue
          /\ QueueAdd(s, r, QueueItem(i))
    \/ \E s \in SocketIds, r \in OneRoom, i \in RemoveInputs : QueueRemove(s, r, i)

SpecQueue == Init /\ [][NextQueue]_vars

(* The frame specification: every handler of the server, on one room, with   *)
(* each connection joining and voting as itself                               *)
FrameActions == {"play", "ended"}

NextFrame ==
    \/ \E s \in SocketIds : Connect(s)
    \/ \E s \in SocketIds, r \in OneRoom : Join(s, r, Participant(s, "n"))
    \/ \E s \in SocketIds, r \in OneRoom : Leave(s, r)
    \/ \E s \in SocketIds : Disconnect(s)
    \/ \E s \in SocketIds, r \in OneRoom : Update(s, r, [isMuted |-> TRUE])
    \/ \E s \in SocketIds, r \in OneRoom, a \in FrameActions : PlayerAction(s, r, a, 7)
    \/ \E s \in SocketIds, r \in OneRoom :
          /\ Len(RoomOf(r).queue) < MaxQueue
          /\ QueueAdd(s, r, QueueItem("q"))
    \/ \E s \in SocketIds, r \in OneRoom : QueueRemove(s, r, "q")
    \/ \E s \in SocketIds, r \in OneRoom, i \in IndexInputs : ChangeVideo(s, r, i)
    \/ \E s \in SocketIds, r \in OneRoom :
          /\ Len(RoomOf(r).messages) < MaxChat
          /\ ChatSend(s, r, ChatMessage(1, s))
    \/ \E s \in SocketIds, r \in OneRoom : VoteNext(s, r, s)

SpecFrame == Init /\ [][NextFrame]_vars

(* The index specification: the queue grows, videos are selected and voted on *)
NextIndex ==
    \/ \E s \in SocketIds : Connect(s)
    \/ \E s \in SocketIds, r \in OneRoom : Join(s, r, Participant(s, "n"))
    \/ \E s \in SocketIds, r \in OneRoom :
          /\ Len(RoomOf(r).queue) < MaxQueue
          /\ QueueAdd(s, r, QueueItem("q"))
    \/ \E s \in SocketIds, r \in OneRoom, i \in IndexInputs : ChangeVideo(s, r, i)
    \/ \E s \in SocketIds, r \in OneRoom : VoteNext(s, r, s)

SpecIndex == Init /\ [][NextIndex]_vars

(* The player specification: one client receives player:sync events *)
SyncInputs ==
    [action : {"play", "pause", "seek"},
     videoTime : {0, 1500},
     serverTime : {0, 1000},
     initiator : {"s2"}]

InitPlayer ==
    /\ rooms = <<>>
    /\ hist = [r \in RoomIds |-> NoHist]
    /\ status = [s \in SocketIds |-> "none"]
    /\ currentRoomId = [s \in SocketIds |-> Null]
    /\ socketRooms = [s \in SocketIds |-> {}]
    /\ emitted = <<>>
    /\ lastEvent = Event("none", Null, Null)
    /\ now = 0
    /\ client = [isReady |-> FALSE, clock |-> 0, playerTime |-> 0, playerState |-> "paused",
                 calls |-> <<>>, target |-> 0,
                 sync |-> [action |-> "pause", videoTime |-> 0, serverTime |-> 0,
                           initiator |-> "s2"]]
    /\ search = NoSearch

NextPlayer ==
    \/ OnReady
    \/ \E data \in SyncInputs : OnPlayerSync(data)
    \/ ClientTick

SpecPlayer == InitPlayer /\ [][NextPlayer]_vars

(* Voting across arrivals and departures: one room, votes under any id or none *)
NextVotes ==
    \/ \E s \in SocketIds : Connect(s)
    \/ \E s \in SocketIds, r \in OneRoom : Join(s, r, Participant(s, "n"))
    \/ \E s \in SocketIds, r \in OneRoom : Leave(s, r)
    \/ \E s \in SocketIds : Disconnect(s)
    \/ \E s \in SocketIds, r \in OneRoom :
          /\ Len(RoomOf(r).queue) < MaxQueue
          /\ QueueAdd(s, r, QueueItem("q"))
    \/ \E s \in SocketIds, r \in OneRoom, p \in VoteInputs : VoteNext(s, r, p)

SpecVotes == Init /\ [][NextVotes]_vars


(* Chat payloads of any length: one room, texts at, under and over the limit  *)
(* of the input field (Chat.tsx line 123: maxLength 500)                      *)
ContentLimit == 500

RECURSIVE Chars(_)
Chars(n) ==
    IF n = 0 THEN ""
    ELSE LET half == Chars(n \div 2)
         IN (IF n % 2 = 1 THEN "x" ELSE "") \o half \o half

TextMessage(id, sender, content) == [id |-> id, senderId |-> sender, content |-> content]

ContentInputs == {1, ContentLimit, ContentLimit + 1}

Texts == [n \in ContentInputs |-> Chars(n)]

NextContent ==
    \/ \E s \in SocketIds : Connect(s)
    \/ \E s \in SocketIds, r \in OneRoom : Join(s, r, Participant(s, "n"))
    \/ \E s \in SocketIds, r \in OneRoom : Leave(s, r)
    \/ \E s \in SocketIds, r \in OneRoom, n \in ContentInputs :
          /\ Len(RoomOf(r).messages) <= MaxChat
          /\ ChatSend(s, r, TextMessage(1, s, Texts[n]))

SpecContent == Init /\ [][NextContent]_vars


(* The search route (GET, Invidious variant): one request served at a time *)
INVIDIOUS_INSTANCES ==
    << "https://inv.tux.pizza",
       "https://invidious.projectsegfau.lt",
       "https://invidious.no-logs.com",
       "https://invidious.io.lol",
       "https://vid.puffyan.us",
       "https://invidious.snopyta.org",
       "https://yewtu.be" >>

SearchCap == 10

(* line 289: !query -- the parameter is absent or empty *)
Missing(query) == query \in {Null, ""}

NoResponse == [status |-> 0, videos |-> <<>>, instance |-> "", error |-> ""]

(* line 290 *)
BadRequest ==
    [status |-> 400, videos |-> <<>>, instance |-> "", error |-> "Query parameter required"]

(* lines 299-308: at most ten results, and the instance that answered *)
Found(results, instance) ==
    [status |-> 200,
     videos |-> SubSeq(results, 1, IF Len(results) < SearchCap THEN Len(results) ELSE SearchCap),
     instance |-> instance,
     error |-> ""]

(* lines 316-319 *)
Unavailable ==
    [status |-> 200, videos |-> <<>>, instance |-> "",
     error |-> "Search temporarily unavailable. Please paste a YouTube URL directly."]

(* a loop that steps over every second instance *)
NextInstance_skipsOne(i) == i + 2

(* line 294: for (const instance of INVIDIOUS_INSTANCES) *)
NextInstance(i) == i + 1

Idle ==
    [phase |-> "idle", query |-> Null, next |-> 1, contacted |-> <<>>, outcomes |-> <<>>,
     body |-> <<>>, response |-> NoResponse]

(* lines 285-291: the request arrives *)
GET(query) ==
    /\ search.phase # "trying"
    /\ search' = IF Missing(query)
                 THEN [Idle EXCEPT !.phase = "done", !.query = query, !.response = BadRequest]
                 ELSE [Idle EXCEPT !.phase = "trying", !.query = query]
    /\ UNCHANGED <<client, rooms, hist, status, currentRoomId, socketRooms, emitted, lastEvent, now>>

(* lines 294-320: one turn of the loop. The fetch of lines 270-282 answers,   *)
(* throws on a timeout, or the instance answers with an error status          *)
searchWithInstance(outcome, results) ==
    /\ search.phase = "trying"
    /\ LET instance == INVIDIOUS_INSTANCES[search.next]
           tried == [search EXCEPT !.contacted = Append(@, instance),
                                   !.outcomes = Append(@, outcome)]
           next == NextInstance(search.next)
       IN search' =
             IF outcome = "ok"
             THEN [tried EXCEPT !.phase = "done", !.body = results,
                                !.response = Found(results, instance)]
             ELSE IF next > Len(INVIDIOUS_INSTANCES)
             THEN [tried EXCEPT !.phase = "done", !.next = next, !.response = Unavailable]
             ELSE [tried EXCEPT !.next = next]
    /\ UNCHANGED <<client, rooms, hist, status, currentRoomId, socketRooms, emitted, lastEvent, now>>

QueryInputs == {Null, "", "cats"}
OutcomeInputs == {"ok", "timeout", "not-ok"}
ResultInputs == {<<>>, [i \in 1..(SearchCap + 1) |-> i]}

InitSearch ==
    /\ rooms = <<>>
    /\ hist = [r \in RoomIds |-> NoHist]
    /\ status = [s \in SocketIds |-> "none"]
    /\ currentRoomId = [s \in SocketIds |-> Null]
    /\ socketRooms = [s \in SocketIds |-> {}]
    /\ emitted = <<>>
    /\ lastEvent = Event("none", Null, Null)
    /\ now = 0
    /\ client = NoClient
    /\ search = Idle

NextSearch ==
    \/ \E q \in QueryInputs : GET(q)
    \/ \E o \in OutcomeInputs, b \in ResultInputs :
          /\ o # "ok" => b = <<>>
          /\ searchWithInstance(o, b)

SpecSearch == InitSearch /\ [][NextSearch]_vars


(* The player component and its isLocalActionRef flag. The embedded player    *)
(* reports a state change only when a call changes its state, and reports it  *)
(* through a queue of events; each event remembers whose call caused it       *)
MaxPending == 4

StateEvent(state, cause) == [state |-> state, cause |-> cause]

(* what the embedded player reports for a call made in a given state *)
PlayerEvents(state, call, rebuffer, cause) ==
    IF call = "playVideo" /\ state # "playing" THEN << StateEvent("playing", cause) >>
    ELSE IF call = "pauseVideo" /\ state # "paused" THEN << StateEvent("paused", cause) >>
    ELSE IF call = "seekTo" /\ state = "playing" /\ rebuffer
    THEN << StateEvent("buffering", cause), StateEvent("playing", cause) >>
    ELSE <<>>

PlayerStateAfter(state, call) ==
    IF call = "playVideo" THEN "playing"
    ELSE IF call = "pauseVideo" THEN "paused"
    ELSE state

Sent(action, cause) == [action |-> action, cause |-> cause]

(* lines 566-569 *)
handlePlay ==
    /\ Len(client.pending) < MaxPending
    /\ client' = [client EXCEPT
                     !.isLocalAction = TRUE,
                     !.pending = @ \o PlayerEvents(client.state, "playVideo", FALSE, "local"),
                     !.state = PlayerStateAfter(@, "playVideo"),
                     !.sent = <<>>]
    /\ UNCHANGED <<search, rooms, hist, status, currentRoomId, socketRooms, emitted, lastEvent, now>>

(* lines 571-574 *)
handlePause ==
    /\ Len(client.pending) < MaxPending
    /\ client' = [client EXCEPT
                     !.isLocalAction = TRUE,
                     !.pending = @ \o PlayerEvents(client.state, "pauseVideo", FALSE, "local"),
                     !.state = PlayerStateAfter(@, "pauseVideo"),
                     !.sent = <<>>]
    /\ UNCHANGED <<search, rooms, hist, status, currentRoomId, socketRooms, emitted, lastEvent, now>>

(* lines 576-582: the seek is sent at once, the flag waits for a state change *)
handleSeek(rebuffer) ==
    /\ Len(client.pending) < MaxPending - 1
    /\ client' = [client EXCEPT
                     !.isLocalAction = TRUE,
                     !.pending = @ \o PlayerEvents(client.state, "seekTo", rebuffer, "local"),
                     !.sent = << Sent("seek", "local") >>]
    /\ UNCHANGED <<search, rooms, hist, status, currentRoomId, socketRooms, emitted, lastEvent, now>>

(* lines 523-545: a received player:sync is applied to the player *)
ApplySync(action) ==
    /\ Len(client.pending) < MaxPending - 1
    /\ LET call == IF action = "play" THEN "playVideo"
                   ELSE IF action = "pause" THEN "pauseVideo"
                   ELSE "seekTo"
       IN \E rebuffer \in BOOLEAN :
             client' = [client EXCEPT
                           !.pending = @ \o PlayerEvents(client.state, call, rebuffer, "remote"),
                           !.state = PlayerStateAfter(@, call),
                           !.sent = <<>>]
    /\ UNCHANGED <<search, rooms, hist, status, currentRoomId, socketRooms, emitted, lastEvent, now>>

(* lines 457-492: the player reports its next state change *)
handleStateChange ==
    /\ client.pending # <<>>
    /\ LET event == Head(client.pending)
           rest == [client EXCEPT !.pending = Tail(@)]
       IN client' =
             IF ~client.isLocalAction
             THEN [rest EXCEPT !.sent = <<>>]
             ELSE [rest EXCEPT
                      !.isLocalAction = FALSE,
                      !.sent = IF event.state = "playing" THEN << Sent("play", event.cause) >>
                               ELSE IF event.state = "paused" THEN << Sent("pause", event.cause) >>
                               ELSE <<>>]
    /\ UNCHANGED <<search, rooms, hist, status, currentRoomId, socketRooms, emitted, lastEvent, now>>

InitEcho ==
    /\ rooms = <<>>
    /\ hist = [r \in RoomIds |-> NoHist]
    /\ status = [s \in SocketIds |-> "none"]
    /\ currentRoomId = [s \in SocketIds |-> Null]
    /\ socketRooms = [s \in SocketIds |-> {}]
    /\ emitted = <<>>
    /\ lastEvent = Event("none", Null, Null)
    /\ now = 0
    /\ client = [state |-> "paused", isLocalAction |-> FALSE, pending |-> <<>>, sent |-> <<>>]
    /\ search = NoSearch

NextEcho ==
    \/ handlePlay
    \/ handlePause
    \/ \E rebuffer \in BOOLEAN : handleSeek(rebuffer)
    \/ \E action \in ActionInputs : ApplySync(action)
    \/ handleStateChange

SpecEcho == InitEcho /\ [][NextEcho]_vars


(* The browsers: each connection's RoomContext state, fed by the socket       *)
(* handlers of useSocket. A broadcast reaches its recipients within the step  *)
(* of the handler that sent it                                                *)
initialState == [participants |-> <<>>, queue |-> <<>>, currentVideoIndex |-> 0]

(* roomReducer: the cases the socket handlers dispatch *)
roomReducer(state, type, payload) ==
    IF type = "SET_PARTICIPANTS" THEN [state EXCEPT !.participants = payload]
    ELSE IF type = "ADD_PARTICIPANT"
    THEN IF payload.id \in Ids(state.participants) THEN state
         ELSE [state EXCEPT !.participants = Append(@, payload)]
    ELSE IF type = "REMOVE_PARTICIPANT"
    THEN [state EXCEPT !.participants = filterOut(@, payload)]
    ELSE IF type = "UPDATE_PARTICIPANT"
    THEN [state EXCEPT !.participants =
             [i \in 1..Len(@) |-> IF @[i].id = payload.id
                                  THEN assign(@[i], payload.updates) ELSE @[i]]]
    ELSE IF type = "SET_QUEUE" THEN [state EXCEPT !.queue = payload]
    ELSE IF type = "SET_CURRENT_VIDEO_INDEX" THEN [state EXCEPT !.currentVideoIndex = payload]
    ELSE state

(* useSocket: what each socket.on(...) handler dispatches *)
OnSocketEvent(state, msg) ==
    IF msg.ev = "room:joined"
    THEN roomReducer(
           roomReducer(
             roomReducer(state, "SET_PARTICIPANTS", msg.payload.participants),
             "SET_QUEUE", msg.payload.queue),
           "SET_CURRENT_VIDEO_INDEX", msg.payload.currentVideoIndex)
    ELSE IF msg.ev = "room:participant-joined"
    THEN roomReducer(state, "ADD_PARTICIPANT", msg.payload)
    ELSE IF msg.ev = "room:participant-left"
    THEN roomReducer(state, "REMOVE_PARTICIPANT", msg.payload)
    ELSE IF msg.ev = "room:participant-updated"
    THEN roomReducer(state, "UPDATE_PARTICIPANT", msg.payload)
    ELSE IF msg.ev = "queue:updated"
    THEN roomReducer(state, "SET_QUEUE", msg.payload)
    ELSE IF msg.ev = "queue:video-changed"
    THEN roomReducer(state, "SET_CURRENT_VIDEO_INDEX", msg.payload)
    ELSE state

RECURSIVE Deliver(_, _)
(* every emission of a handler, in order, to each of its recipients *)
Deliver(states, msgs) ==
    IF msgs = <<>> THEN states
    ELSE Deliver([s \in SocketIds |->
                     IF s \in Head(msgs).to THEN OnSocketEvent(states[s], Head(msgs))
                     ELSE states[s]],
                 Tail(msgs))

InitBrowsers ==
    /\ rooms = <<>>
    /\ hist = [r \in RoomIds |-> NoHist]
    /\ status = [s \in SocketIds |-> "none"]
    /\ currentRoomId = [s \in SocketIds |-> Null]
    /\ socketRooms = [s \in SocketIds |-> {}]
    /\ emitted = <<>>
    /\ lastEvent = Event("none", Null, Null)
    /\ now = 0
    /\ client = [s \in SocketIds |-> initialState]
    /\ search = NoSearch

(* Rosters: joins and re-joins under either name, updates, leaves and closes  *)
(* in one room, every participant under the id of its own connection         *)
NameInputs == {"n", "m"}

NextRoster ==
    \/ \E s \in SocketIds : Connect(s)
    \/ \E s \in SocketIds, r \in OneRoom, name \in NameInputs :
          /\ ServerJoin(s, r, Participant(s, name))
          /\ client' = Deliver(client, emitted')
    \/ \E s \in SocketIds, r \in OneRoom :
          /\ ServerLeave(s, r)
          /\ client' = Deliver(client, emitted')
    \/ \E s \in SocketIds, r \in OneRoom :
          /\ ServerUpdate(s, r, [isMuted |-> TRUE])
          /\ client' = Deliver(client, emitted')
    \/ \E s \in SocketIds :
          /\ ServerDisconnect(s)
          /\ client' = Deliver(client, emitted')

SpecRoster == InitBrowsers /\ [][NextRoster]_vars


(* RoomProvider.nextVideo, as called by handleError after its three seconds,  *)
(* by the ended branch of handleStateChange and by the skip button: a         *)
(* dispatch to the local reducer and nothing to the server                    *)
nextVideo(s) ==
    /\ status[s] = "open"
    /\ currentRoomId[s] # Null
    /\ client[s].currentVideoIndex < Len(client[s].queue) - 1
    /\ client' = [client EXCEPT ![s] =
                     roomReducer(@, "SET_CURRENT_VIDEO_INDEX", @.currentVideoIndex + 1)]
    /\ UNCHANGED <<search, rooms, hist, status, currentRoomId, socketRooms, emitted, lastEvent, now>>

(* Queue.handleSelectVideo: the local dispatch, then queue:change-video *)
handleSelectVideo(s, index) ==
    /\ currentRoomId[s] # Null
    /\ ServerChangeVideo(s, currentRoomId[s], index)
    /\ client' = Deliver([client EXCEPT ![s] =
                             roomReducer(@, "SET_CURRENT_VIDEO_INDEX", index)],
                         emitted')

(* The index in the browsers: joins, queue additions, selections, votes and   *)
(* local skips in one room                                                    *)
NextBrowserIndex ==
    \/ \E s \in SocketIds : Connect(s)
    \/ \E s \in SocketIds, r \in OneRoom :
          /\ ServerJoin(s, r, Participant(s, "n"))
          /\ client' = Deliver(client, emitted')
    \/ \E s \in SocketIds, r \in OneRoom :
          /\ r \in socketRooms[s]
          /\ Len(RoomOf(r).queue) < MaxQueue
          /\ ServerQueueAdd(s, r, QueueItem("q"))
          /\ client' = Deliver(client, emitted')
    \/ \E s \in SocketIds, i \in IndexInputs : handleSelectVideo(s, i)
    \/ \E s \in SocketIds, r \in OneRoom :
          /\ r \in socketRooms[s]
          /\ ServerVoteNext(s, r, s)
          /\ client' = Deliver(client, emitted')
    \/ \E s \in SocketIds : nextVideo(s)

SpecBrowserIndex == InitBrowsers /\ [][NextBrowserIndex]_vars


----------------------------------------------------------------------------
(* Properties of vote:next, stated on the step a handler takes *)

(* The step is the handling of a vote-next that carries a participantId *)
VoteStep == lastEvent'.name = "vote:next" /\ lastEvent'.arg # NoId

(* The room a vote:next for roomId finds, and the vote set once the vote is in *)
Before(roomId) == RoomOf(roomId)
WithVote(roomId, participantId) == Before(roomId).votes \cup {participantId}
QuorumAt(roomId, participantId) ==
    Cardinality(WithVote(roomId, participantId)) >= Len(Before(roomId).participants)
NotLast(roomId) == Before(roomId).currentVideoIndex < Len(Before(roomId).queue) - 1

(* Consensus fired in the handler that ran last: it broadcast an empty vote set *)
Fired ==
    /\ Len(emitted) >= 2
    /\ emitted[1].ev = "room:votes-updated"
    /\ \E i \in 2..Len(emitted) :
          emitted[i].ev = "room:votes-updated" /\ emitted[i].payload = {}

PlaybackUnchanged(roomId) ==
    /\ rooms'[roomId].currentVideoIndex = Before(roomId).currentVideoIndex
    /\ rooms'[roomId].currentTime = Before(roomId).currentTime
    /\ rooms'[roomId].playerState = Before(roomId).playerState

(* C1: quorum exactness. Handling vote-next for a room fires consensus iff,   *)
(* with the vote inserted, |votes| >= |participants|; when it fires votes is  *)
(* empty afterwards, when it does not votes is the old set plus the voter and *)
(* currentVideoIndex, currentTime and playerState are unchanged.              *)
QuorumExactness ==
    [][VoteStep =>
          LET r == lastEvent'.roomId
              p == lastEvent'.arg
          IN
            /\ Fired' <=> QuorumAt(r, p)
            /\ Fired' => rooms'[r].votes = {}
            /\ ~Fired' => /\ rooms'[r].votes = WithVote(r, p)
                          /\ PlaybackUnchanged(r)]_vars

(* C1 witness: a vote of the second of two participants fired consensus *)
QuorumFiredWitness ==
    \E r \in DOMAIN rooms :
        /\ Fired
        /\ Len(rooms[r].participants) = 2
        /\ Cardinality(emitted[1].payload) = 2
        /\ rooms[r].votes = {}

(* C2: vote subset. A vote-next whose participantId is the id of no           *)
(* participant in the roster leaves votes as it was.                          *)
VoteOfStrangerIsNoOp ==
    [][VoteStep =>
          LET r == lastEvent'.roomId
              p == lastEvent'.arg
          IN p \notin Ids(Before(r).participants) =>
                rooms'[r].votes = Before(r).votes]_vars

(* C3: a vote that reaches quorum below the last queue item increments        *)
(* currentVideoIndex by one, sets currentTime 0 and playerState playing,      *)
(* empties votes, stays within the queue, and leaves queue, participants and  *)
(* messages alone.                                                            *)
QuorumAdvances ==
    [][VoteStep =>
          LET r == lastEvent'.roomId
              p == lastEvent'.arg
          IN (QuorumAt(r, p) /\ NotLast(r)) =>
            /\ rooms'[r].currentVideoIndex = Before(r).currentVideoIndex + 1
            /\ rooms'[r].currentVideoIndex <= Len(rooms'[r].queue) - 1
            /\ rooms'[r].currentTime = 0
            /\ rooms'[r].playerState = "playing"
            /\ rooms'[r].votes = {}
            /\ rooms'[r].queue = Before(r).queue
            /\ rooms'[r].participants = Before(r).participants
            /\ rooms'[r].messages = Before(r).messages]_vars

(* C3 witness: consensus of two participants moved the room to item 1 *)
QuorumAdvancedWitness ==
    \E r \in DOMAIN rooms :
        /\ Len(emitted) = 4
        /\ emitted[2].ev = "queue:video-changed"
        /\ emitted[2].payload = 1
        /\ rooms[r].currentVideoIndex = 1
        /\ rooms[r].playerState = "playing"
        /\ Len(rooms[r].participants) = 2

EvSeq == [i \in 1..Len(emitted) |-> emitted[i].ev]
(* every emission of the step went to the sockets in the room's group *)
ToRoom(roomId) == \A i \in 1..Len(emitted') : emitted'[i].to = InRoom(roomId)

(* C4: a quorum-reaching vote that advances the queue broadcasts to the room,  *)
(* in this order and nothing else: votes-updated with the vote set including  *)
(* the new vote, queue-video-changed with the new index, votes-updated with   *)
(* the empty set, player-sync {play, 0, system}; a vote short of quorum       *)
(* broadcasts only the first votes-updated.                                   *)
VoteBroadcastOrder ==
    [][VoteStep =>
          LET r == lastEvent'.roomId
              p == lastEvent'.arg
          IN
            /\ (QuorumAt(r, p) /\ NotLast(r)) =>
                  /\ EvSeq' = << "room:votes-updated", "queue:video-changed",
                                 "room:votes-updated", "player:sync" >>
                  /\ ToRoom(r)
                  /\ emitted'[1].payload = WithVote(r, p)
                  /\ emitted'[2].payload = Before(r).currentVideoIndex + 1
                  /\ emitted'[2].payload = rooms'[r].currentVideoIndex
                  /\ emitted'[3].payload = {}
                  /\ emitted'[4].payload.action = "play"
                  /\ emitted'[4].payload.videoTime = 0
                  /\ emitted'[4].payload.initiator = "system"
            /\ ~QuorumAt(r, p) =>
                  /\ EvSeq' = << "room:votes-updated" >>
                  /\ ToRoom(r)
                  /\ emitted'[1].payload = WithVote(r, p)]_vars

(* C4 witness: the four broadcasts of an advancing vote, sent to both sockets *)
VoteBroadcastWitness ==
    /\ EvSeq = << "room:votes-updated", "queue:video-changed",
                  "room:votes-updated", "player:sync" >>
    /\ emitted[1].to = SocketIds
    /\ emitted[4].payload.initiator = "system"

(* C5: a vote that reaches quorum at the last item or on an empty queue clears *)
(* votes and broadcasts votes-updated with the empty set; currentVideoIndex,   *)
(* currentTime and playerState stay, and neither queue-video-changed nor       *)
(* player-sync is emitted.                                                     *)
QuorumAtEndOfQueue ==
    [][VoteStep =>
          LET r == lastEvent'.roomId
              p == lastEvent'.arg
          IN (QuorumAt(r, p) /\ ~NotLast(r)) =>
            /\ rooms'[r].votes = {}
            /\ PlaybackUnchanged(r)
            /\ EvSeq' = << "room:votes-updated", "room:votes-updated" >>
            /\ emitted'[2].payload = {}
            /\ ToRoom(r)]_vars

(* C5 witness: quorum of two reached on the last of two items *)
EndOfQueueWitness ==
    \E r \in DOMAIN rooms :
        /\ EvSeq = << "room:votes-updated", "room:votes-updated" >>
        /\ Cardinality(emitted[1].payload) = 2
        /\ Len(rooms[r].queue) = 2
        /\ rooms[r].currentVideoIndex = 1
        /\ rooms[r].votes = {}

(* C6: quorum cannot double-fire. Every handled vote-next advances          *)
(* currentVideoIndex by at most one, and in a room whose roster of n >= 1     *)
(* participants is fixed and where only roster members vote, k advances took  *)
(* at least k*n handled vote-next events.                                     *)
NoDoubleFire ==
    /\ [](\A r \in DOMAIN rooms :
            (~hist[r].tainted /\ Len(rooms[r].participants) >= 1) =>
                hist[r].advances * Len(rooms[r].participants) <= hist[r].handled)
    /\ [][lastEvent'.name = "vote:next" =>
            LET r == lastEvent'.roomId
            IN rooms'[r].currentVideoIndex - Before(r).currentVideoIndex \in {0, 1}]_vars

(* C6 witness: two members, four votes handled, two advances *)
TwoAdvancesWitness ==
    \E r \in DOMAIN rooms :
        /\ ~hist[r].tainted
        /\ Len(rooms[r].participants) = 2
        /\ hist[r].advances = 2
        /\ hist[r].handled = 4
        /\ Fired

(* C7: in a room with a fixed roster of n >= 1 participants, votes empty at    *)
(* the start and currentVideoIndex below the last item, the index has moved   *)
(* by exactly one and votes is empty once every roster member's vote-next has *)
(* been handled, and it has not moved before the last of them. On a step:     *)
(* with only members' votes in the set, the vote that completes the roster    *)
(* advances by one and clears, any earlier one leaves the index alone.        *)
AllMembersVotedAdvances ==
    [][VoteStep =>
          LET r == lastEvent'.roomId
              p == lastEvent'.arg
          IN
          ( /\ Len(Before(r).participants) >= 1
            /\ p \in Ids(Before(r).participants)
            /\ Before(r).votes \subseteq Ids(Before(r).participants)
            /\ NotLast(r) ) =>
            IF Ids(Before(r).participants) \subseteq WithVote(r, p)
            THEN /\ rooms'[r].currentVideoIndex = Before(r).currentVideoIndex + 1
                 /\ rooms'[r].votes = {}
            ELSE rooms'[r].currentVideoIndex = Before(r).currentVideoIndex]_vars

(* C8: chat bound. After any number of chat-send events a room holds at most  *)
(* 100 messages, exactly the most recent min(total, 100) in arrival order.    *)
ChatBound ==
    \A r \in DOMAIN rooms :
        LET m == rooms[r].messages
            total == hist[r].chatTotal
            kept == IF total < 100 THEN total ELSE 100
        IN /\ Len(m) <= 100
           /\ Len(m) = kept
           /\ \A i \in 1..Len(m) : m[i].id = total - kept + i

(* C8 witness: the 101st message has evicted the first *)
ChatEvictedWitness ==
    \E r \in DOMAIN rooms :
        /\ hist[r].chatTotal = 101
        /\ Len(rooms[r].messages) = 100
        /\ rooms[r].messages[1].id = 2
        /\ rooms[r].messages[100].id = 101
        /\ Len(emitted) = 1
        /\ emitted[1].ev = "chat:message"

IdsDistinct(participants) ==
    \A i, j \in 1..Len(participants) :
        i # j => participants[i].id # participants[j].id

(* C9: uniqueness under joins. After any sequence of join events on a room,   *)
(* with any participant ids and from any connections, the ids of its          *)
(* participants are pairwise distinct.                                        *)
UniqueAfterJoins ==
    \A r \in DOMAIN rooms : IdsDistinct(rooms[r].participants)

(* C9 witness: a join for the id of the first of two entries (a re-join) *)
RejoinWitness ==
    \E r \in DOMAIN rooms :
        /\ Len(rooms[r].participants) = 2
        /\ Len(emitted) = 2
        /\ emitted[1].ev = "room:joined"
        /\ emitted[2].payload.id = rooms[r].participants[1].id
        /\ rooms[r].participants[1].name = "m"

(* C10: in every reachable state, after joins, leaves, participant-updates    *)
(* and other events, the ids of a room's participants are pairwise distinct.  *)
UniqueIdsAlways ==
    \A r \in RoomIds : IdsDistinct(RoomOf(r).participants)

----------------------------------------------------------------------------
(* Properties of room:join *)

(* The step is the handling of a room:join *)
JoinStep == lastEvent'.name = "room:join"

(* C11: join replaces in place or appends. A join with an id already in the   *)
(* roster keeps the roster length and the position of that entry and          *)
(* overwrites it with the new participant; a join with a new id appends at    *)
(* the end and keeps the order of the others; the same join applied a second  *)
(* time leaves the room state as the first application left it.               *)
JoinReplacesOrAppends ==
    [][/\ JoinStep =>
            LET r == lastEvent'.roomId
                p == lastEvent'.arg
                old == Before(r).participants
                new == rooms'[r].participants
            IN IF p.id \in Ids(old)
               THEN /\ Len(new) = Len(old)
                    /\ \E i \in 1..Len(old) :
                          /\ old[i].id = p.id
                          /\ new[i] = p
                          /\ \A j \in 1..Len(old) : j # i => new[j] = old[j]
               ELSE /\ Len(new) = Len(old) + 1
                    /\ new[Len(new)] = p
                    /\ \A j \in 1..Len(old) : new[j] = old[j]
       /\ (lastEvent.name = "room:join" /\ lastEvent' = lastEvent) => rooms' = rooms
      ]_vars

(* C11 witness: the first of two entries has just been overwritten by a join *)
ReplacedInPlaceWitness ==
    /\ lastEvent.name = "room:join"
    /\ lastEvent.roomId \in DOMAIN rooms
    /\ Len(rooms[lastEvent.roomId].participants) = 2
    /\ rooms[lastEvent.roomId].participants[1] = lastEvent.arg
    /\ lastEvent.arg.name = "m"
    /\ rooms[lastEvent.roomId].participants[2].name = "n"

(* The step is the first event a room sees, and that event is a join *)
FirstJoinStep == JoinStep /\ lastEvent'.roomId \notin DOMAIN rooms

(* C12: Scenario A. When participant a joins a room that has had no prior     *)
(* events, the room-joined event it receives carries empty participants,      *)
(* empty queue and empty messages, currentVideoIndex = 0 and playerState =    *)
(* paused.                                                                    *)
FirstJoinSeesEmptyRoster ==
    [][FirstJoinStep =>
          /\ Len(emitted') >= 1
          /\ emitted'[1].ev = "room:joined"
          /\ emitted'[1].payload.participants = <<>>
          /\ emitted'[1].payload.queue = <<>>
          /\ emitted'[1].payload.messages = <<>>
          /\ emitted'[1].payload.currentVideoIndex = 0
          /\ emitted'[1].payload.playerState = "paused"]_vars

(* C12 as amended: the room-joined event of the first join of a room carries  *)
(* the joiner as the only participant, empty queue and empty messages,        *)
(* currentVideoIndex = 0 and playerState = paused.                            *)
FirstJoinSeesOnlyJoiner ==
    [][FirstJoinStep =>
          /\ Len(emitted') >= 1
          /\ emitted'[1].ev = "room:joined"
          /\ emitted'[1].payload.participants = << lastEvent'.arg >>
          /\ emitted'[1].payload.queue = <<>>
          /\ emitted'[1].payload.messages = <<>>
          /\ emitted'[1].payload.currentVideoIndex = 0
          /\ emitted'[1].payload.playerState = "paused"]_vars

(* C12 witness: one connection is open and its join has just been answered *)
FirstJoinWitness ==
    /\ Cardinality({s \in SocketIds : status[s] = "open"}) = 1
    /\ lastEvent.name = "room:join"
    /\ Len(emitted) = 2
    /\ emitted[1].ev = "room:joined"
    /\ emitted[1].payload.participants = << lastEvent.arg >>
    /\ emitted[2].to = {}

RoomFields ==
    {"participants", "queue", "messages", "votes",
     "currentVideoIndex", "playerState", "currentTime"}

(* C13: join delivery. A join is answered with exactly one room-joined sent   *)
(* to the joining connection alone, carrying the room's current participants, *)
(* queue, messages, votes, currentVideoIndex, playerState and currentTime,    *)
(* and exactly one participant-joined goes to every other connection in the   *)
(* room and none to the joiner.                                               *)
JoinDelivery ==
    [][\A s \in SocketIds, r \in OneRoom, p \in JoinInputs :
          Join(s, r, p) =>
             /\ Len(emitted') = 2
             /\ emitted'[1].ev = "room:joined"
             /\ emitted'[1].to = {s}
             /\ DOMAIN emitted'[1].payload = RoomFields
             /\ \A f \in RoomFields : emitted'[1].payload[f] = rooms'[r][f]
             /\ emitted'[2].ev = "room:participant-joined"
             /\ emitted'[2].payload = p
             /\ emitted'[2].to = {x \in SocketIds : x # s /\ r \in socketRooms'[x]}
             /\ s \notin emitted'[2].to]_vars

(* C13 witness: a join into a room with a queue, a roster of two and another  *)
(* connection to notify                                                       *)
JoinDeliveryWitness ==
    /\ lastEvent.name = "room:join"
    /\ Len(emitted) = 2
    /\ emitted[1].ev = "room:joined"
    /\ Len(emitted[1].payload.participants) = 2
    /\ Len(emitted[1].payload.queue) = 1
    /\ emitted[1].payload.playerState = "playing"
    /\ emitted[1].payload.currentTime = 7
    /\ Cardinality(emitted[1].to) = 1
    /\ Cardinality(emitted[2].to) = 1
    /\ emitted[2].to # emitted[1].to

----------------------------------------------------------------------------
(* Properties of room:leave and disconnect *)

(* The state before the step is the one connection s's join of r left *)
JustJoined(s, r) ==
    /\ lastEvent.name = "room:join"
    /\ lastEvent.roomId = r
    /\ Len(emitted) = 2
    /\ emitted[1].to = {s}

(* C14: after a connection that joined room R with participant p issues      *)
(* leave, or closes, p is no longer in R.participants and the                 *)
(* participant-left notification carries p's id; a leave for an id that is    *)
(* not in the roster changes nothing.                                         *)
LeaveRemovesParticipant ==
    [][\A s \in SocketIds, r \in OneRoom :
          (Leave(s, r) \/ Disconnect(s)) =>
             /\ JustJoined(s, r) =>
                   /\ lastEvent.arg.id \notin Ids(rooms'[r].participants)
                   /\ Len(emitted') = 1
                   /\ emitted'[1].ev = "room:participant-left"
                   /\ emitted'[1].payload = lastEvent.arg.id
             /\ s \notin Ids(RoomOf(r).participants) => RoomOf(r)' = RoomOf(r)]_vars

(* C15: leave happens exactly once per connection. A leave or a close of a    *)
(* connection that is joined applies the leave effect once (one               *)
(* participant-left, the roster filtered) and ends the membership, so that no *)
(* second leave follows without a new join; a leave or a close of a           *)
(* connection that is not joined, a close after an explicit leave included,   *)
(* has no effect; a closed connection handles no further event.               *)
LeaveOncePerJoin ==
    [][\A s \in SocketIds :
          /\ ((\E r \in OneRoom : Leave(s, r)) \/ Disconnect(s)) =>
                IF currentRoomId[s] # Null
                THEN LET cur == currentRoomId[s]
                     IN /\ Len(emitted') = 1
                        /\ emitted'[1].ev = "room:participant-left"
                        /\ emitted'[1].payload = s
                        /\ emitted'[1].to = {x \in SocketIds : x # s /\ cur \in socketRooms[x]}
                        /\ s \notin Ids(rooms'[cur].participants)
                        /\ currentRoomId'[s] = Null \/ status'[s] = "closed"
                ELSE /\ emitted' = <<>>
                     /\ rooms' = rooms
          /\ status[s] = "closed" =>
                /\ status'[s] = "closed"
                /\ ~ Disconnect(s)
                /\ \A r \in OneRoom : ~ Leave(s, r)
                /\ \A r \in OneRoom, p \in JoinInputs : ~ Join(s, r, p)]_vars

(* C15 witness: the only connection there was joined, left and then closed;   *)
(* the close found no membership and did nothing                              *)
CloseAfterLeaveWitness ==
    /\ status = [s \in SocketIds |-> IF s = "s1" THEN "closed" ELSE "none"]
    /\ "r1" \in DOMAIN rooms
    /\ currentRoomId["s1"] = Null
    /\ lastEvent.name = "disconnect"
    /\ emitted = <<>>

(* C16: each connection is bound to zero or one room. In every reachable      *)
(* state, also after a join for room A followed by a join for room B without  *)
(* a leave, a connection is a member of the broadcast group of at most one    *)
(* room and has a roster entry in at most one room.                           *)
OneRoomPerConnection ==
    \A s \in SocketIds :
        /\ Cardinality(socketRooms[s]) <= 1
        /\ Cardinality({r \in DOMAIN rooms : s \in Ids(rooms[r].participants)}) <= 1

----------------------------------------------------------------------------
(* Properties of participant:update *)

----------------------------------------------------------------------------
(* Properties of player:action *)

(* C18: playback actions. A play action sets playerState to playing, a pause  *)
(* action sets it to paused, a seek action leaves it unchanged; every action  *)
(* sets currentTime to the reported videoTime and produces exactly one        *)
(* player-sync carrying the same action and videoTime, delivered to every     *)
(* connection in the room, the originator included.                           *)
PlaybackActions ==
    [][\A s \in SocketIds, r \in OneRoom, a \in ActionInputs, t \in TimeInputs :
          PlayerAction(s, r, a, t) =>
             /\ a = "play" => rooms'[r].playerState = "playing"
             /\ a = "pause" => rooms'[r].playerState = "paused"
             /\ a = "seek" => rooms'[r].playerState = RoomOf(r).playerState
             /\ rooms'[r].currentTime = t
             /\ Len(emitted') = 1
             /\ emitted'[1].ev = "player:sync"
             /\ emitted'[1].payload.action = a
             /\ emitted'[1].payload.videoTime = t
             /\ emitted'[1].to = {x \in SocketIds : r \in socketRooms[x]}
             /\ r \in socketRooms[s] => s \in emitted'[1].to]_vars

(* C18 witness: a seek to 7 in a playing room, synced to both connections *)
SeekWitness ==
    /\ lastEvent.name = "player:action"
    /\ lastEvent.arg = <<"seek", 7>>
    /\ rooms["r1"].playerState = "playing"
    /\ rooms["r1"].currentTime = 7
    /\ Len(emitted) = 1
    /\ emitted[1].ev = "player:sync"
    /\ emitted[1].to = SocketIds
    /\ emitted[1].payload.initiator \in emitted[1].to

----------------------------------------------------------------------------
(* Properties of queue:add and queue:remove *)

(* The handler sent one queue:updated to the room, carrying the queue *)
QueueBroadcast(roomId, queue) ==
    /\ Len(emitted') = 1
    /\ emitted'[1].ev = "queue:updated"
    /\ emitted'[1].payload = queue
    /\ ToRoom(roomId)

(* C19: queue order. queue-add appends the item at the end and queue-remove   *)
(* deletes the item with the given id, both leaving the relative order of all *)
(* other items unchanged, and each broadcasts a queue-updated whose payload   *)
(* equals the queue after the mutation.                                       *)
QueueOrder ==
    [][/\ lastEvent'.name = "queue:add" =>
            LET r == lastEvent'.roomId
                old == Before(r).queue
                new == rooms'[r].queue
            IN /\ Len(new) = Len(old) + 1
               /\ new[Len(new)] = lastEvent'.arg
               /\ \A j \in 1..Len(old) : new[j] = old[j]
               /\ QueueBroadcast(r, new)
       /\ lastEvent'.name = "queue:remove" =>
            LET r == lastEvent'.roomId
                old == Before(r).queue
                new == rooms'[r].queue
                Other(x) == x.id # lastEvent'.arg
            IN /\ new = SelectSeq(old, Other)
               /\ QueueBroadcast(r, new)]_vars

(* C19 witness: item a has just been removed from a queue that also holds b *)
RemovedWitness ==
    /\ lastEvent.name = "queue:remove"
    /\ lastEvent.arg = "a"
    /\ rooms["r1"].queue = << QueueItem("b") >>
    /\ Len(emitted) = 1
    /\ emitted[1].payload = << QueueItem("b") >>
    /\ emitted[1].to = SocketIds

(* C20: queue-remove with an itemId that matches no queue item leaves the     *)
(* queue and all other room state unchanged and still broadcasts              *)
(* queue-updated with the unchanged list.                                     *)
RemoveOfAbsentItem ==
    [][(/\ lastEvent'.name = "queue:remove"
        /\ lastEvent'.arg \notin Ids(Before(lastEvent'.roomId).queue)) =>
          /\ rooms'[lastEvent'.roomId] = Before(lastEvent'.roomId)
          /\ QueueBroadcast(lastEvent'.roomId, Before(lastEvent'.roomId).queue)]_vars

(* C20 witness: a remove of x from the queue a, b left both in place and was  *)
(* still broadcast                                                            *)
RemoveAbsentWitness ==
    /\ lastEvent.name = "queue:remove"
    /\ lastEvent.arg = "x"
    /\ rooms["r1"].queue = << QueueItem("a"), QueueItem("b") >>
    /\ Len(emitted) = 1
    /\ emitted[1].ev = "queue:updated"
    /\ emitted[1].payload = rooms["r1"].queue
    /\ emitted[1].to # {}

----------------------------------------------------------------------------
(* Properties of queue:change-video and of currentVideoIndex *)

(* C21: queue-change-video sets currentVideoIndex to the given index and      *)
(* currentTime to 0 and broadcasts queue-video-changed with that index,       *)
(* leaving playerState, votes, queue, participants and messages unchanged.    *)
ChangeVideoFrame ==
    [][lastEvent'.name = "queue:change-video" =>
          LET r == lastEvent'.roomId
              index == lastEvent'.arg
          IN /\ rooms'[r].currentVideoIndex = index
             /\ rooms'[r].currentTime = 0
             /\ \A f \in {"playerState", "votes", "queue", "participants", "messages"} :
                   rooms'[r][f] = Before(r)[f]
             /\ Len(emitted') = 1
             /\ emitted'[1].ev = "queue:video-changed"
             /\ emitted'[1].payload = index
             /\ ToRoom(r)]_vars

(* C21 witness: the second video has just been selected in a playing room     *)
(* that holds a vote, a message and two participants                          *)
VideoChangedWitness ==
    /\ lastEvent.name = "queue:change-video"
    /\ lastEvent.arg = 1
    /\ rooms["r1"].currentVideoIndex = 1
    /\ rooms["r1"].currentTime = 0
    /\ rooms["r1"].playerState = "playing"
    /\ rooms["r1"].votes # {}
    /\ Len(rooms["r1"].queue) = 2
    /\ Len(rooms["r1"].messages) = 1
    /\ Len(rooms["r1"].participants) = 2
    /\ emitted[1].to = SocketIds

(* C22: after any sequence of queue-add, queue-change-video and vote-next     *)
(* events (no queue-remove), whenever the queue is non-empty                  *)
(* currentVideoIndex satisfies 0 <= currentVideoIndex < len(queue).           *)
IndexInRange ==
    \A r \in DOMAIN rooms :
        Len(rooms[r].queue) > 0 =>
            /\ 0 <= rooms[r].currentVideoIndex
            /\ rooms[r].currentVideoIndex < Len(rooms[r].queue)

----------------------------------------------------------------------------
(* Properties of the room registry *)

(* C23: getOrCreate constructs once. The first reference to a room id creates *)
(* a state with empty participants, queue, messages and votes,                *)
(* currentVideoIndex 0, playerState paused and currentTime 0 (here the first  *)
(* reference is a join, which then adds its participant); every later         *)
(* reference, the join of a second connection in any interleaving included,   *)
(* works on that state without resetting it; no step removes a room from the  *)
(* registry.                                                                  *)
RegistryConstructsOnce ==
    [][/\ DOMAIN rooms \subseteq DOMAIN rooms'
       /\ \A r \in DOMAIN rooms' \ DOMAIN rooms :
             /\ lastEvent'.name = "room:join"
             /\ lastEvent'.roomId = r
             /\ rooms'[r].participants = << lastEvent'.arg >>
             /\ rooms'[r].queue = <<>>
             /\ rooms'[r].messages = <<>>
             /\ rooms'[r].votes = {}
             /\ rooms'[r].currentVideoIndex = 0
             /\ rooms'[r].playerState = "paused"
             /\ rooms'[r].currentTime = 0
       /\ \A r \in DOMAIN rooms :
             (lastEvent'.name = "room:join" /\ lastEvent'.roomId = r) =>
                /\ Ids(rooms[r].participants) \subseteq Ids(rooms'[r].participants)
                /\ \A f \in RoomFields \ {"participants"} : rooms'[r][f] = rooms[r][f]
      ]_vars

(* C23 witness: both connections have joined r2 for the first time, one after *)
(* the other, and both are in its roster; r1 is registered as well            *)
BothJoinedWitness ==
    /\ DOMAIN rooms = RoomIds
    /\ lastEvent.name = "room:join"
    /\ lastEvent.roomId = "r2"
    /\ Ids(rooms["r2"].participants) = SocketIds
    /\ Len(rooms["r2"].participants) = 2

(* C24: room isolation. Handling any inbound event whose payload names room   *)
(* R, well-formed or not, leaves the state of every room other than R         *)
(* unchanged.                                                                 *)
OtherRoomsUntouched ==
    [][lastEvent'.roomId \in RoomIds =>
          \A r \in RoomIds :
              r # lastEvent'.roomId => RoomOf(r)' = RoomOf(r)]_vars

(* C25: a malformed vote-next event (participantId missing) mutates no state  *)
(* at all: no room's votes, index or playback fields change, the registry     *)
(* gains no room, and nothing is broadcast.                                   *)
MalformedVoteIsNoOp ==
    [][(lastEvent'.name = "vote:next" /\ lastEvent'.arg = NoId) =>
          /\ DOMAIN rooms' = DOMAIN rooms
          /\ rooms' = rooms
          /\ emitted' = <<>>]_vars

(* C27: the server's currentVideoIndex changes only while handling            *)
(* queue-change-video or a quorum-reaching vote-next; join, leave, connection *)
(* close, participant-update, player-action (a client reaching the end of the *)
(* media included), queue-add, queue-remove and chat-send leave it unchanged. *)
IndexChangesOnlyByChoice ==
    [][\A r \in RoomIds :
          RoomOf(r)'.currentVideoIndex # RoomOf(r).currentVideoIndex =>
             /\ lastEvent'.roomId = r
             /\ \/ lastEvent'.name = "queue:change-video"
                \/ /\ lastEvent'.name = "vote:next"
                   /\ lastEvent'.arg # NoId
                   /\ QuorumAt(r, lastEvent'.arg)]_vars

(* C27 witness: a client reported the end of the first of two videos and the  *)
(* index is still 0                                                           *)
EndedKeepsIndexWitness ==
    /\ lastEvent.name = "player:action"
    /\ lastEvent.arg = <<"ended", 7>>
    /\ Len(rooms["r1"].queue) = 2
    /\ rooms["r1"].currentVideoIndex = 0
    /\ rooms["r1"].currentTime = 7
    /\ Len(rooms["r1"].participants) = 2

----------------------------------------------------------------------------
(* Properties of votes across departures and repetitions *)

(* C28: leaving does not purge votes. A leave or a connection close changes   *)
(* only participants; votes, queue, messages, currentVideoIndex, playerState  *)
(* and currentTime are unchanged, so an id that voted and then left remains   *)
(* in votes and still counts toward |votes| at the next vote.                 *)
LeaveKeepsVotes ==
    [][/\ lastEvent'.name \in {"room:leave", "disconnect"} =>
            \A r \in RoomIds, f \in RoomFields \ {"participants"} :
                RoomOf(r)'[f] = RoomOf(r)[f]
       /\ VoteStep =>
            LET r == lastEvent'.roomId
                stale == Before(r).votes \ Ids(Before(r).participants)
                fresh == (Before(r).votes \cup {lastEvent'.arg}) \ stale
            IN Fired' <=>
                 Cardinality(stale) + Cardinality(fresh) >= Len(Before(r).participants)
      ]_vars

(* C28 witness: s1 voted and has just left; its vote is still in the set *)
StaleVoteWitness ==
    /\ lastEvent.name = "room:leave"
    /\ Len(emitted) = 1
    /\ emitted[1].payload = "s1"
    /\ rooms["r1"].votes = {"s1"}
    /\ Ids(rooms["r1"].participants) = {"s2"}

----------------------------------------------------------------------------
(* Properties of the player component *)

(* C30: latency formula. For a sync event with serverTime T and videoTime V   *)
(* received at local time T + D, the client computes the target playback time *)
(* V + D, issues a seek to it if and only if action = seek or                 *)
(* |localPlaybackTime - (V + D)| > 1 second, and afterwards applies play or   *)
(* pause when the action is one of those two. (The callback runs once the     *)
(* player is ready.)                                                          *)
LatencyFormula ==
    [][\A data \in SyncInputs :
          (client.isReady /\ OnPlayerSync(data)) =>
             LET D == client.clock - data.serverTime
                 target == data.videoTime + D
                 calls == client'.calls
                 seeks == \E i \in 1..Len(calls) : calls[i] = "seekTo"
                 applies == data.action \in {"play", "pause"}
             IN /\ seeks <=> \/ data.action = "seek"
                             \/ client.playerTime - target > 1000
                             \/ target - client.playerTime > 1000
                /\ seeks => calls[1] = "seekTo" /\ client'.target = target
                /\ Len(calls) = (IF seeks THEN 1 ELSE 0) + (IF applies THEN 1 ELSE 0)
                /\ data.action = "play" => calls[Len(calls)] = "playVideo"
                /\ data.action = "pause" => calls[Len(calls)] = "pauseVideo"]_vars

(* C30 witness: a play for video time 1.5 s arrived half a second after the   *)
(* server sent it, at a player more than a second away: seek to 2 s, then     *)
(* play                                                                       *)
LatencySeekWitness ==
    /\ client.isReady
    /\ client.sync.action = "play"
    /\ client.sync.videoTime = 1500
    /\ client.clock - client.sync.serverTime = 500
    /\ client.calls = << "seekTo", "playVideo" >>
    /\ client.target = 2000
    /\ client.playerTime = 2000

----------------------------------------------------------------------------
(* Properties of the server's playerState *)

(* C38: the server-side playerState of every room is always paused or         *)
(* playing; it starts as paused and no event, whatever action string          *)
(* player:action carries, sets it to any other value                          *)
PlayerStateDomain ==
    \A r \in DOMAIN rooms : rooms[r].playerState \in {"paused", "playing"}

(* C38 witness: a client reported the end of a video that was playing and the *)
(* room is still marked playing                                               *)
EndedKeepsStateWitness ==
    /\ lastEvent.name = "player:action"
    /\ lastEvent.arg[1] = "ended"
    /\ rooms[lastEvent.roomId].playerState = "playing"

----------------------------------------------------------------------------
(* Properties of the vote set between handlers *)

(* votes are in and would meet the quorum test, yet nothing has fired *)
Pending(room) ==
    /\ room.votes # {}
    /\ Cardinality(room.votes) >= Len(room.participants)

(* C33 as stated: between event handlers, every room with non-empty votes has *)
(* |votes| < |participants|                                                   *)
NoPendingQuorum == \A r \in DOMAIN rooms : ~Pending(rooms[r])

(* C33: a vote:next with a participant id always ends with the votes empty or *)
(* fewer than the participants, and a room goes from no pending quorum to a   *)
(* pending one only in a room:leave or a disconnect                           *)
PendingOnlyByDeparture ==
    [][/\ (lastEvent'.name = "vote:next" /\ ~Falsy(lastEvent'.arg))
              => ~Pending(rooms'[lastEvent'.roomId])
       /\ \A r \in OneRoom :
              (~Pending(RoomOf(r)) /\ Pending(RoomOf(r)'))
                  => lastEvent'.name \in {"room:leave", "disconnect"}]_vars

(* C33 witness: two participants, the second vote met the quorum at the end   *)
(* of the queue and the votes were cleared                                    *)
QuorumClearedWitness ==
    /\ lastEvent.name = "vote:next"
    /\ lastEvent.arg \in SocketIds
    /\ Len(rooms[lastEvent.roomId].participants) = 2
    /\ rooms[lastEvent.roomId].votes = {}
    /\ Len(emitted) = 2

----------------------------------------------------------------------------
(* Properties of who may change a room *)

(* the fields of a room that the playback, queue, chat and vote events write *)
Shared(room) ==
    << room.queue, room.votes, room.messages,
       room.currentVideoIndex, room.playerState, room.currentTime >>

(* connection s sends one of the events that write those fields of room r *)
SentTo(s, r) ==
    \/ \E a \in FrameActions : PlayerAction(s, r, a, 7)
    \/ QueueAdd(s, r, QueueItem("q"))
    \/ QueueRemove(s, r, "q")
    \/ \E i \in IndexInputs : ChangeVideo(s, r, i)
    \/ ChatSend(s, r, ChatMessage(1, s))
    \/ VoteNext(s, r, s)

(* C34: only members mutate a room. A room's queue, votes, messages,          *)
(* currentVideoIndex, playerState and currentTime change only in response to  *)
(* events sent by connections currently joined to it; events from a           *)
(* connection that never joined, or that has left, leave them unchanged       *)
OnlyMembersMutate ==
    [][\A s \in SocketIds, r \in OneRoom :
          (r \notin socketRooms[s] /\ SentTo(s, r))
              => Shared(RoomOf(r)') = Shared(RoomOf(r))]_vars

----------------------------------------------------------------------------
(* Properties of chat content *)

(* C31: every ChatMessage stored in a room's messages has content of at most  *)
(* 500 characters, whatever chat:send payloads connections submit             *)
ContentBound ==
    \A r \in DOMAIN rooms :
        \A i \in 1..Len(rooms[r].messages) :
            Len(rooms[r].messages[i].content) <= ContentLimit

----------------------------------------------------------------------------
(* Properties of the search route *)

(* C32: search fallback. The handler contacts the configured providers        *)
(* strictly in list order, answers with the result of the first provider that *)
(* succeeds without contacting later ones, answers with an empty video list   *)
(* and an error string only after every provider has failed, and rejects a    *)
(* request without a query with status 400 before any provider is contacted   *)
SearchFallback ==
    LET n == Len(search.contacted)
        N == Len(INVIDIOUS_INSTANCES)
        answer == search.response
        allFailed == n = N /\ \A k \in 1..n : search.outcomes[k] # "ok"
    IN /\ n <= N
       /\ Len(search.outcomes) = n
       /\ \A k \in 1..n : search.contacted[k] = INVIDIOUS_INSTANCES[k]
       /\ \A k \in 1..(n - 1) : search.outcomes[k] # "ok"
       /\ (n >= 1 /\ search.outcomes[n] = "ok")
             => /\ answer.status = 200
                /\ answer.instance = INVIDIOUS_INSTANCES[n]
                /\ answer.error = ""
                /\ Len(answer.videos) <= SearchCap
                /\ \A k \in 1..Len(answer.videos) : answer.videos[k] = search.body[k]
                /\ Len(search.body) <= SearchCap => answer.videos = search.body
       /\ allFailed <=> (answer.status = 200 /\ answer.error # "")
       /\ allFailed => answer.videos = <<>>
       /\ (search.phase # "idle" /\ Missing(search.query))
             => (n = 0 /\ answer.status = 400)
       /\ answer.status = 400 => Missing(search.query)
       /\ answer.status = 0 <=> search.phase \in {"idle", "trying"}

(* C32 witness: the first two providers failed, the third answered with more  *)
(* results than are passed on, and no further provider was contacted          *)
ThirdProviderWitness ==
    /\ search.phase = "done"
    /\ search.outcomes = << "timeout", "not-ok", "ok" >>
    /\ search.response.instance = INVIDIOUS_INSTANCES[3]
    /\ Len(search.response.videos) = SearchCap
    /\ Len(search.body) > SearchCap

----------------------------------------------------------------------------
(* Properties of the isLocalActionRef flag *)

(* C35: no echo of remote syncs. A client emits a player-action only for a    *)
(* locally initiated play, pause or seek; a state change caused by applying a *)
(* received player-sync never makes the client emit a player-action, in any   *)
(* interleaving of local seeks and incoming sync events                       *)
NoEcho ==
    \A i \in 1..Len(client.sent) : client.sent[i].cause = "local"

----------------------------------------------------------------------------
(* Properties of the browsers' copies of the room *)

SameRoster(mine, theirs) ==
    /\ Len(mine) = Len(theirs)
    /\ {mine[i] : i \in 1..Len(mine)} = {theirs[i] : i \in 1..Len(theirs)}

(* C36: client roster convergence. Once every server broadcast has been       *)
(* delivered, the participants list held by each client joined to room R      *)
(* contains the same ids with the same field values as R.participants on the  *)
(* server, for any sequence of joins (re-joins with an existing id included), *)
(* updates, leaves and closes                                                 *)
RosterConvergence ==
    \A s \in SocketIds, r \in RoomIds :
        (status[s] = "open" /\ r \in socketRooms[s])
            => SameRoster(client[s].participants, rooms[r].participants)

(* C37: client index consistency. A client's local currentVideoIndex changes  *)
(* only on room-joined, on queue-video-changed, or on a local selection that  *)
(* it also sends to the server, so once all in-flight events are delivered    *)
(* every client joined to room R holds the server's currentVideoIndex for R   *)
IndexConsistency ==
    \A s \in SocketIds, r \in RoomIds :
        (status[s] = "open" /\ r \in socketRooms[s])
            => client[s].currentVideoIndex = rooms[r].currentVideoIndex

====
